---- MODULE Spec2Model ----
(***************************************************************************)
(* The clang-tags daemon: the server thread (main.cxx: main, Serve and the *)
(* commands), the filesystem watcher thread (watch/inotify.cxx) and the    *)
(* index update engine thread (Update::Thread, whose source is not part of *)
(* the files at hand and is modelled from the design document, section     *)
(* 4.1, as is the request parser, section 4.3).                            *)
(***************************************************************************)
EXTENDS Integers, Sequences, FiniteSets, TLC

VARIABLES
  \* ---- Update engine (RebuildState, design section 3)
  generation,          \* completed rebuilds
  requestedGeneration, \* generation a rebuild was last requested for
  phase,               \* "Idle" | "Requested" | "Rebuilding"
  engPc,               \* "run" | "exited"
  engInterrupt,        \* interruption requested for the engine thread
  rebuildFresh,        \* history: the running rebuild started while the waiter waited
  freshDone,           \* history: a rebuild started at/after the wait call completed
  nReqInRebuild,       \* history: RequestRebuild calls during the running rebuild
  failed,              \* history: the indexer failed in the last completed rebuild
  \* ---- Watcher (Inotify)
  wPc,                 \* "top" | "register" | "clear" | "poll" | "readable" | "exited"
  updateRequested_,    \* Inotify::updateRequested_
  wList,               \* local `list` of update_()
  inotifyMap_,         \* Inotify::inotifyMap_ : fileName -> wd
  kernelWd,            \* the kernel's watches of fd_inotify_ : file -> wd
  queue,               \* unread inotify events (their wd), oldest first
  watchInterrupt,      \* interruption requested for the watcher thread
  addCalls,            \* history: inotify_add_watch calls per file name
  nMods,               \* history: modifications of watched files so far
  nWatchIndex,         \* history: updateThread_.index() calls of the watcher
  win,                 \* history: the current poll-wait interval
  rescanOwed,          \* history: update() was called after the last fetch of the list began
  \* ---- Server thread (main, Serve, commands)
  mainPc,
  pidFile,             \* .ct.pid exists
  sockFile,            \* .ct.sock exists
  acceptorBroken,      \* the listening socket fails every accept from now on
  conn,                \* the request being bound, NoConn outside dispatch
  out,                 \* what was written to the (last) connection so far
  nConns,              \* connections accepted so far
  afterError,          \* history: the previous connection got an error response
  target,              \* WaitForRebuild's captured target generation
  FindCommand_args_,     \* FindCommand::args_
  CompleteCommand_args_, \* CompleteCommand::args_
  served,              \* history: the commands of the requests that carried options
  dirtied,             \* history: the cells of FindCommand::args_ a dispatch left off their default
  openSockets,         \* connected `socket` objects of Serve::operator() alive
  nDispatched          \* history: parseJson calls so far

engineVars == <<generation, requestedGeneration, phase, engPc, engInterrupt, failed,
                rebuildFresh, freshDone, nReqInRebuild>>
watchVars  == <<wPc, updateRequested_, wList, inotifyMap_, kernelWd, queue,
                watchInterrupt, addCalls, nMods, nWatchIndex, win, rescanOwed>>
argVars    == <<FindCommand_args_, CompleteCommand_args_, served, dirtied>>
connVars   == <<openSockets, nDispatched>>
mainVars   == <<mainPc, pidFile, sockFile, acceptorBroken, conn, out,
                nConns, afterError, target, argVars, connVars>>
vars == <<engineVars, watchVars, mainVars>>

---------------------------------------------------------------------------
\* Bounds of the model
MaxMods   == 2   \* modifications of watched files the environment makes
MaxConns  == 2   \* connections the clients open
MaxList   == 2   \* length of the list Storage::listFiles returns
MaxDispatch == 3 \* connections whose requests carry options

\* Program constants
BUF_LEN   == 1024   \* inotify.cxx:55
EVENT_LEN == 16     \* sizeof (struct inotify_event), name length 0 (a file watch)

Files == {"a.c", "b.c"}

Max(a, b) == IF a >= b THEN a ELSE b
Min(a, b) == IF a <= b THEN a ELSE b

---------------------------------------------------------------------------
\* Index update engine: RebuildState and its three operations.

Pending(gen, req) == req > gen

\* Faulty variant: every request asks for one generation more.
RequestedAfterCounting(gen, req) == Max(gen, req) + 1

\* RequestRebuild(): "requestedGeneration set to generation+1 (no-op if
\* already >= that)".
RequestedAfter(gen, req) == IF req >= gen + 1 THEN req ELSE gen + 1

PhaseAfterRequest(ph) == IF ph = "Idle" THEN "Requested" ELSE ph

\* n >= 1 consecutive RequestRebuild() calls of one thread (the call is
\* idempotent; n only shows in the history counter).
RequestRebuild(n) ==
  /\ requestedGeneration' = RequestedAfter(generation, requestedGeneration)
  /\ phase' = PhaseAfterRequest(phase)
  /\ nReqInRebuild' = IF phase = "Rebuilding" THEN nReqInRebuild + n ELSE nReqInRebuild
  /\ UNCHANGED <<generation, engPc, engInterrupt, failed, rebuildFresh, freshDone>>

\* WaitForRebuild(): "captures target = max(generation+1, requestedGeneration)".
WaitTarget(gen, req) == Max(gen + 1, req)

\* Faulty variant: the wait forces nothing.
ForcedRequestNever(gen, req) == req

\* WaitForRebuild(): "must not block forever if no rebuild is currently
\* pending (it then forces one)".
ForcedRequest(gen, req) == IF Pending(gen, req) THEN req ELSE gen + 1

\* WaitForRebuild() returns once "generation >= target".
WaitSatisfied(gen, tgt) == gen >= tgt

\* Run(): the cancellation check that opens every iteration; a running
\* rebuild is left to finish.
EngineCancel ==
  /\ engPc = "run" /\ phase # "Rebuilding" /\ engInterrupt
  /\ engPc' = "exited"
  /\ UNCHANGED <<generation, requestedGeneration, phase, engInterrupt, failed,
                 rebuildFresh, freshDone, nReqInRebuild>>
  /\ UNCHANGED <<watchVars, mainVars>>

\* Run(): a rebuild is pending: transition to Rebuilding, invoke the indexer.
EngineBegin ==
  /\ engPc = "run" /\ ~engInterrupt
  /\ phase = "Requested"
  /\ phase' = "Rebuilding"
  /\ rebuildFresh' = (mainPc = "idxBlocked")
  /\ nReqInRebuild' = 0
  /\ UNCHANGED <<generation, requestedGeneration, engPc, engInterrupt, failed, freshDone>>
  /\ UNCHANGED <<watchVars, mainVars>>

\* Faulty variant: only a successful rebuild counts.
GenerationAfterSuccess(gen, ok) == IF ok THEN gen + 1 ELSE gen

\* Run(): "failures from the external indexer during a rebuild are logged and
\* the engine still advances generation".
GenerationAfterRebuild(gen, ok) == gen + 1

\* Run(): the indexer returned, with success or with a failure: increment
\* generation, clear the pending state, wake the waiters.
EngineComplete ==
  /\ engPc = "run" /\ phase = "Rebuilding"
  /\ \E ok \in BOOLEAN :
       /\ generation' = GenerationAfterRebuild(generation, ok)
       /\ failed' = ~ok
  /\ phase' = "Idle"
  /\ freshDone' = (freshDone \/ rebuildFresh)
  /\ rebuildFresh' = FALSE
  /\ UNCHANGED <<requestedGeneration, engPc, engInterrupt, nReqInRebuild>>
  /\ UNCHANGED <<watchVars, mainVars>>

\* Run(): nothing pending: sleep a bounded interval and recheck.
EngineIdle ==
  /\ engPc = "run" /\ ~engInterrupt /\ phase = "Idle"
  /\ UNCHANGED vars

EngineNext == EngineCancel \/ EngineBegin \/ EngineComplete \/ EngineIdle

---------------------------------------------------------------------------
\* Filesystem watcher: Inotify (watch/inotify.cxx).

\* Storage::listFiles(): any list of file names, repetitions included.
RECURSIVE SeqsUpTo(_)
SeqsUpTo(n) ==
  IF n = 0 THEN {<<>>}
  ELSE LET shorter == SeqsUpTo(n - 1)
       IN shorter \cup {Append(l, f) : l \in {x \in shorter : Len(x) = n - 1}, f \in Files}

StorageLists == SeqsUpTo(MaxList)

\* inotifyMap_: the WatchTable, a mapping fileName -> watch handle.
contains(map, fileName) == fileName \in DOMAIN map

add(map, fileName, wd) ==
  [g \in DOMAIN map \cup {fileName} |-> IF g = fileName THEN wd ELSE map[g]]

\* inotify_add_watch (fd_inotify_, fileName, IN_MODIFY): -1 on failure, the
\* existing handle of an object already watched, a new handle otherwise.
inotify_add_watch(kern, fileName, fails) ==
  IF fails THEN [wd |-> -1, kern |-> kern]
  ELSE IF fileName \in DOMAIN kern THEN [wd |-> kern[fileName], kern |-> kern]
  ELSE LET w == Cardinality(DOMAIN kern) + 1
       IN [wd |-> w,
           kern |-> [g \in DOMAIN kern \cup {fileName} |->
                       IF g = fileName THEN w ELSE kern[g]]]

\* Faulty variant: the check for already watched files is missing.
SkipNever(map, fileName) == FALSE

\* update_(), lines 39-42: "Skip already watched files".
SkipAlreadyWatched(map, fileName) == contains(map, fileName)

\* update_(), lines 45-50: what is recorded for the handle inotify_add_watch
\* returned; a failure (-1) is reported by perror and recorded like any other.
RecordWatch(map, fileName, wd) == add(map, fileName, wd)

\* update_(), lines 36-51: the loop over the fetched list. st is the record
\* [map, kern, calls]; failing is the set of names whose registration
\* the kernel refuses during this rescan.
RECURSIVE update_loop(_, _, _)
update_loop(list, st, failing) ==
  IF list = <<>> THEN st
  ELSE LET fileName == Head(list) IN
    IF SkipAlreadyWatched(st.map, fileName)
    THEN update_loop(Tail(list), st, failing)
    ELSE LET r == inotify_add_watch(st.kern, fileName, fileName \in failing)
         IN update_loop(Tail(list),
              [map    |-> RecordWatch(st.map, fileName, r.wd),
               kern   |-> r.kern,
               calls  |-> [st.calls EXCEPT ![fileName] = @ + 1]],
              failing)

\* The poll-wait interval being observed: it opens while the watcher waits
\* in poll with nothing pending and closes when the wait's bound (1000 ms)
\* has passed.
WinClosed == [open |-> FALSE, files |-> {}, mods |-> 0, calls |-> 0, batches |-> 0]
WinOpened == [open |-> TRUE,  files |-> {}, mods |-> 0, calls |-> 0, batches |-> 0]

\* Faulty variant: update() recomputes the watch list itself, on the
\* caller's thread.
RescanOnCallerThread ==
  /\ engPc = "run"
  /\ updateRequested_' = TRUE
  /\ \E l \in StorageLists :
       LET st == update_loop(l, [map |-> inotifyMap_, kern |-> kernelWd,
                                 calls |-> addCalls], {})
       IN /\ inotifyMap_' = st.map
          /\ kernelWd' = st.kern
          /\ addCalls' = st.calls
  /\ UNCHANGED <<wPc, wList, queue, watchInterrupt, nMods, nWatchIndex, win>>
  /\ rescanOwed' = TRUE
  /\ UNCHANGED <<engineVars, mainVars>>

\* Inotify::update(): called through the engine's handle to the watcher.
RequestRescan ==
  /\ engPc = "run"
  /\ updateRequested_' = TRUE
  /\ UNCHANGED <<wPc, wList, inotifyMap_, kernelWd, queue, watchInterrupt,
                 addCalls, nMods, nWatchIndex, win>>
  /\ rescanOwed' = TRUE
  /\ UNCHANGED <<engineVars, mainVars>>

\* Faulty variant: the loop has no interruption point.
interruption_point_missing(requested) == FALSE

\* operator(), line 64: boost::this_thread::interruption_point() ends the
\* thread when its interruption was requested.
interruption_point(requested) == requested

\* operator(), line 64: the interruption point is passed, the thread ends.
WInterrupted ==
  /\ wPc = "top" /\ interruption_point(watchInterrupt)
  /\ wPc' = "exited"
  /\ UNCHANGED <<updateRequested_, wList, inotifyMap_, kernelWd, queue,
                 watchInterrupt, addCalls, nMods, nWatchIndex, win, rescanOwed>>
  /\ UNCHANGED <<engineVars, mainVars>>

\* operator(), line 67 with update_(), line 35: the flag is read; when set,
\* the list of files is fetched from Storage.
WCheckFlag ==
  /\ wPc = "top" /\ ~interruption_point(watchInterrupt)
  /\ IF updateRequested_
     THEN /\ \E l \in StorageLists : wList' = l
          /\ wPc' = "register"
     ELSE /\ wPc' = "poll"
          /\ wList' = wList
  /\ UNCHANGED <<updateRequested_, inotifyMap_, kernelWd, queue, watchInterrupt,
                 addCalls, nMods, nWatchIndex, win>>
  /\ rescanOwed' = IF updateRequested_ THEN FALSE ELSE rescanOwed
  /\ UNCHANGED <<engineVars, mainVars>>

\* update_(), lines 36-51.
WRegister ==
  /\ wPc = "register"
  /\ \E failing \in SUBSET Files :
       LET st == update_loop(wList,
                   [map |-> inotifyMap_, kern |-> kernelWd,
                    calls |-> addCalls], failing)
       IN /\ inotifyMap_' = st.map
          /\ kernelWd' = st.kern
          /\ addCalls' = st.calls
  /\ wPc' = "clear"
  /\ UNCHANGED <<updateRequested_, wList, queue, watchInterrupt, nMods, nWatchIndex, win, rescanOwed>>
  /\ UNCHANGED <<engineVars, mainVars>>

\* operator(), line 72: update_() has returned; updateRequested_.set (false).
WClear ==
  /\ wPc = "clear"
  /\ updateRequested_' = FALSE
  /\ wList' = <<>>
  /\ wPc' = "poll"
  /\ UNCHANGED <<inotifyMap_, kernelWd, queue, watchInterrupt,
                 addCalls, nMods, nWatchIndex, win, rescanOwed>>
  /\ UNCHANGED <<engineVars, mainVars>>

\* operator(), lines 76-79: poll fails.
WPollError ==
  /\ wPc = "poll"
  /\ wPc' = "top"
  /\ UNCHANGED <<updateRequested_, wList, inotifyMap_, kernelWd, queue,
                 watchInterrupt, addCalls, nMods, nWatchIndex, win, rescanOwed>>
  /\ UNCHANGED <<engineVars, mainVars>>

\* operator(), lines 76, 81-82: nothing arrived within 1000 ms.
WPollTimeout ==
  /\ wPc = "poll" /\ queue = <<>>
  /\ wPc' = "top"
  /\ win' = WinClosed
  /\ UNCHANGED <<updateRequested_, wList, inotifyMap_, kernelWd, queue,
                 watchInterrupt, addCalls, nMods, nWatchIndex, rescanOwed>>
  /\ UNCHANGED <<engineVars, mainVars>>

\* operator(), lines 76, 81-82: the descriptor is readable.
WPollIn ==
  /\ wPc = "poll" /\ queue # <<>>
  /\ wPc' = "readable"
  /\ UNCHANGED <<updateRequested_, wList, inotifyMap_, kernelWd, queue,
                 watchInterrupt, addCalls, nMods, nWatchIndex, win, rescanOwed>>
  /\ UNCHANGED <<engineVars, mainVars>>

\* operator(), lines 84-88: read fails; nothing is consumed.
WReadError ==
  /\ wPc = "readable"
  /\ wPc' = "top"
  /\ UNCHANGED <<updateRequested_, wList, inotifyMap_, kernelWd, queue,
                 watchInterrupt, addCalls, nMods, nWatchIndex, win, rescanOwed>>
  /\ UNCHANGED <<engineVars, mainVars>>

\* read (fd.fd, buf, BUF_LEN): as many whole event records as the buffer holds.
RecordsRead(q) == Min(Len(q), BUF_LEN \div EVENT_LEN)

\* operator(), lines 90-97: the records of len bytes, walked one by one.
RECURSIVE DecodeLoop(_, _, _)
DecodeLoop(i, len, n) ==
  IF i < len THEN DecodeLoop(i + EVENT_LEN, len, n + 1) ELSE n

\* Faulty variant: index() is called inside the decoding loop.
IndexCallsPerRecord(nRecords) == nRecords

\* Faulty variant: index() is not reached after the decoding loop.
IndexCallsNever(nRecords) == 0

\* operator(), lines 99-100: index() calls of one wake-up that decoded
\* nRecords records.
IndexCallsPerWake(nRecords) == 1

\* operator(), lines 84-100: read, decode, schedule an index update.
WRead ==
  /\ wPc = "readable"
  /\ LET k == RecordsRead(queue)
         nRecords == DecodeLoop(0, k * EVENT_LEN, 0)
         calls == IndexCallsPerWake(nRecords)
     IN /\ queue' = SubSeq(queue, k + 1, Len(queue))
        /\ RequestRebuild(calls)
        /\ nWatchIndex' = nWatchIndex + calls
        /\ win' = IF win.open THEN [win EXCEPT !.calls = @ + calls] ELSE win
  /\ wPc' = "top"
  /\ UNCHANGED <<updateRequested_, wList, inotifyMap_, kernelWd,
                 watchInterrupt, addCalls, nMods, rescanOwed>>
  /\ UNCHANGED mainVars

\* The environment: a watched file is modified; the kernel queues an
\* IN_MODIFY event, merged with an identical unread event that ends the queue.
Modify ==
  /\ nMods < MaxMods
  /\ \E f \in DOMAIN kernelWd :
       /\ queue' = IF queue # <<>> /\ queue[Len(queue)] = kernelWd[f]
                   THEN queue ELSE Append(queue, kernelWd[f])
       /\ win' = IF win.open
                 THEN [win EXCEPT !.files = @ \cup {f}, !.mods = @ + 1,
                                  !.batches = IF queue = <<>> THEN @ + 1 ELSE @]
                 ELSE win
  /\ nMods' = nMods + 1
  /\ UNCHANGED <<wPc, updateRequested_, wList, inotifyMap_, kernelWd,
                 watchInterrupt, addCalls, nWatchIndex, rescanOwed>>
  /\ UNCHANGED <<engineVars, mainVars>>

\* The observed interval starts: the watcher waits in poll, nothing pending.
WindowOpen ==
  /\ wPc = "poll" /\ queue = <<>> /\ ~win.open
  /\ win' = WinOpened
  /\ UNCHANGED <<wPc, updateRequested_, wList, inotifyMap_, kernelWd, queue,
                 watchInterrupt, addCalls, nMods, nWatchIndex, rescanOwed>>
  /\ UNCHANGED <<engineVars, mainVars>>

\* The observed interval (1000 ms) has passed while the watcher was busy
\* outside poll or in a later poll.
WindowElapse ==
  /\ win.open
  /\ win' = WinClosed
  /\ UNCHANGED <<wPc, updateRequested_, wList, inotifyMap_, kernelWd, queue,
                 watchInterrupt, addCalls, nMods, nWatchIndex, rescanOwed>>
  /\ UNCHANGED <<engineVars, mainVars>>

WatcherNext ==
  \/ RequestRescan \/ WInterrupted \/ WCheckFlag \/ WRegister \/ WClear
  \/ WPollError \/ WPollTimeout \/ WPollIn \/ WReadError \/ WRead
  \/ Modify \/ WindowOpen \/ WindowElapse

---------------------------------------------------------------------------
\* Server thread: main, Serve and the commands (main.cxx); the request
\* parser's binding (Request::Parser, design section 4.3).

\* The commands main registers, lines 315-321.
Commands == {"load", "config", "index", "find", "grep", "complete", "exit"}

\* The commands whose execution is delegated to the query logic.
QueryCommands == {"load", "config", "find", "grep", "complete"}

\* No option supplied.
NoOptions == <<>>

\* A request that supplies no declared option: its command name and whether
\* it supplies an option the command does not declare.
Requests == [cmd : Commands \cup {"bogus"}, badOption : BOOLEAN, opts : {NoOptions}]

NoConn == [cmd |-> "none", badOption |-> FALSE, opts |-> NoOptions]

\* FindCommand::FindCommand, lines 123-137: the key of each option and the
\* member of args_ it is bound to.
FindKeys ==
  [file |-> "fileName", offset |-> "offset", mostSpecific |-> "mostSpecific",
   diagnostics |-> "diagnostics", fromIndex |-> "fromIndex"]

\* FindCommand::defaults, lines 140-146.
FindCommand_defaults ==
  [fileName |-> "", offset |-> 0, mostSpecific |-> FALSE,
   diagnostics |-> TRUE, fromIndex |-> TRUE]

\* CompleteCommand::CompleteCommand, lines 200-208.
CompleteKeys == [file |-> "fileName", line |-> "line", column |-> "column"]

\* CompleteCommand::defaults, lines 211-215.
CompleteCommand_defaults == [fileName |-> "", line |-> 0, column |-> 0]

\* The values clients supply, each off the option's default.
FindValues ==
  [file |-> "a.cpp", offset |-> 120, mostSpecific |-> TRUE,
   diagnostics |-> FALSE, fromIndex |-> FALSE]

CompleteValues == [file |-> "b.cpp", line |-> 7, column |-> 3]

OptionSets(values) == {[o \in S |-> values[o]] : S \in SUBSET DOMAIN values}

\* The find and complete requests, any subset of the declared options
\* supplied, an undeclared one possibly among them.
OptionRequests ==
  {[cmd |-> "find", badOption |-> b, opts |-> v] :
     b \in BOOLEAN, v \in OptionSets(FindValues)}
  \cup {[cmd |-> "complete", badOption |-> b, opts |-> v] :
     b \in BOOLEAN, v \in OptionSets(CompleteValues)}

\* Faulty variant: the defaults are applied by the constructor only.
ResetDefaultsOnce(cells, dflt) == cells

\* Binding, section 4.3: "Invoke the command's ResetDefaults hook": the
\* command's defaults () runs on every dispatch.
ResetDefaults(cells, dflt) == dflt

\* Binding, section 4.3: each supplied value is decoded into the cell its
\* option is bound to; the other cells are left as they are.
Decode(cells, keys, opts) ==
  [c \in DOMAIN cells |->
     LET os == {o \in DOMAIN opts : keys[o] = c}
     IN IF os = {} THEN cells[c] ELSE opts[CHOOSE o \in os : TRUE]]

Bind(cells, dflt, keys, opts) == Decode(ResetDefaults(cells, dflt), keys, opts)

Restrict(opts, S) == [o \in S |-> opts[o]]

NonDefault(cells, dflt) == {c \in DOMAIN cells : cells[c] # dflt[c]}

\* The binding of the supplied options `opts` of a request for cmd.
BindOptions(cmd, opts) ==
  /\ FindCommand_args_' =
       IF cmd = "find"
       THEN Bind(FindCommand_args_, FindCommand_defaults, FindKeys, opts)
       ELSE FindCommand_args_
  /\ CompleteCommand_args_' =
       IF cmd = "complete"
       THEN Bind(CompleteCommand_args_, CompleteCommand_defaults, CompleteKeys, opts)
       ELSE CompleteCommand_args_
  /\ dirtied' = dirtied \cup NonDefault(FindCommand_args_', FindCommand_defaults)
  /\ UNCHANGED served

\* The positions of main from which Serve::operator() has been left.
AfterServe == {"interrupt0", "interrupt1", "join0", "join1", "done"}

\* Binding, section 4.3: the command is looked up, then each supplied option.
BindError(r) ==
  IF r.cmd \notin Commands THEN "UnknownCommand"
  ELSE IF r.badOption THEN "UnknownOption"
  ELSE "none"

\* Serve::Serve, lines 242-250: the pid file is written.
ServeCtor ==
  /\ mainPc = "start"
  /\ pidFile' = TRUE
  /\ mainPc' = "bind"
  /\ UNCHANGED <<sockFile, acceptorBroken, conn, out, nConns, afterError, target>>
  /\ UNCHANGED <<engineVars, watchVars>>
  /\ UNCHANGED argVars
  /\ UNCHANGED connVars

\* Serve::operator(), lines 261-263: the acceptor binds the socket path.
ServeBind ==
  /\ mainPc = "bind" /\ ~sockFile
  /\ sockFile' = TRUE
  /\ mainPc' = "accept"
  /\ UNCHANGED <<pidFile, acceptorBroken, conn, out, nConns, afterError, target>>
  /\ UNCHANGED <<engineVars, watchVars>>
  /\ UNCHANGED argVars
  /\ UNCHANGED connVars

\* Serve::operator(), line 263: the path is in use, the constructor throws.
ServeBindFails ==
  /\ mainPc = "bind" /\ sockFile
  /\ mainPc' = "unwind"
  /\ UNCHANGED <<pidFile, sockFile, acceptorBroken, conn, out, nConns, afterError, target>>
  /\ UNCHANGED <<engineVars, watchVars>>
  /\ UNCHANGED argVars
  /\ UNCHANGED connVars

\* Faulty variant: the stream outlives the iteration.
SocketKeptOpen(n) == n

\* Serve::operator(), lines 265-271: `socket` is a local of the loop's body;
\* it is destroyed, the connection closed, when the iteration ends.
SocketAfterIteration(n) == n - 1

\* Serve::operator(), lines 265-268: a connection is accepted.
AcceptOk ==
  /\ mainPc = "accept" /\ ~acceptorBroken /\ nConns < MaxConns
  /\ \E r \in Requests : conn' = r
  /\ out' = <<>>
  /\ nConns' = nConns + 1
  /\ afterError' = (out = <<"error">>)
  /\ mainPc' = "dispatch"
  /\ freshDone' = FALSE
  /\ UNCHANGED <<pidFile, sockFile, acceptorBroken, target>>
  /\ UNCHANGED <<generation, requestedGeneration, phase, engPc, engInterrupt, failed,
                 rebuildFresh, nReqInRebuild>>
  /\ UNCHANGED watchVars
  /\ UNCHANGED argVars
  /\ openSockets' = openSockets + 1
  /\ UNCHANGED nDispatched

\* Serve::operator(), lines 265-268: a connection is accepted whose request
\* is a find or a complete with options.
AcceptWithOptions ==
  /\ mainPc = "accept" /\ ~acceptorBroken /\ nConns < MaxDispatch
  /\ \E r \in OptionRequests :
       /\ conn' = r
       /\ served' = Append(served, r.cmd)
  /\ out' = <<>>
  /\ nConns' = nConns + 1
  /\ afterError' = (out = <<"error">>)
  /\ mainPc' = "dispatch"
  /\ freshDone' = FALSE
  /\ UNCHANGED <<pidFile, sockFile, acceptorBroken, target>>
  /\ UNCHANGED <<FindCommand_args_, CompleteCommand_args_, dirtied>>
  /\ UNCHANGED <<generation, requestedGeneration, phase, engPc, engInterrupt, failed,
                 rebuildFresh, nReqInRebuild>>
  /\ UNCHANGED watchVars
  /\ openSockets' = openSockets + 1
  /\ UNCHANGED nDispatched

\* Serve::operator(), lines 264-271: where the loop goes after an accept
\* that failed.
AfterAcceptError == "accept"

\* Serve::operator(), lines 267-271: accept fails, for this call or for good.
AcceptError ==
  /\ mainPc = "accept"
  /\ \E unrecoverable \in BOOLEAN :
       acceptorBroken' = (acceptorBroken \/ unrecoverable)
  /\ mainPc' = AfterAcceptError
  /\ UNCHANGED <<pidFile, sockFile, conn, out, nConns, afterError, target>>
  /\ UNCHANGED <<engineVars, watchVars>>
  /\ UNCHANGED argVars
  /\ UNCHANGED connVars

\* Faulty variant: the loop is left after one dispatch.
AfterDispatchStops == "unwind"

\* Serve::operator(), lines 264-271: where the loop goes after parseJson
\* returned normally.
AfterDispatch == "accept"

\* parseJson: the request names no registered command, or an option the
\* command does not declare: an error response, the dispatch returns. The
\* options that preceded the undeclared one in the request have been bound.
DispatchError ==
  /\ mainPc = "dispatch" /\ BindError(conn) # "none"
  /\ \E before \in SUBSET DOMAIN conn.opts :
       BindOptions(conn.cmd, Restrict(conn.opts, before))
  /\ out' = <<"error">>
  /\ mainPc' = AfterDispatch
  /\ conn' = NoConn
  /\ UNCHANGED <<pidFile, sockFile, acceptorBroken, nConns, afterError, target>>
  /\ UNCHANGED <<engineVars, watchVars>>
  /\ nDispatched' = nDispatched + 1
  /\ openSockets' = SocketAfterIteration(openSockets)

\* Faulty variant: run returns instead of throwing.
AfterExitRunReturns == "accept"

\* ExitCommand::run, lines 233-236: where control goes after "Exiting...".
AfterExitRun == "unwind"

\* ExitCommand::run, lines 233-236.
RunExit ==
  /\ mainPc = "dispatch" /\ BindError(conn) = "none" /\ conn.cmd = "exit"
  /\ out' = <<"Exiting...">>
  /\ mainPc' = AfterExitRun
  /\ conn' = NoConn
  /\ UNCHANGED <<pidFile, sockFile, acceptorBroken, nConns, afterError, target>>
  /\ UNCHANGED <<engineVars, watchVars>>
  /\ UNCHANGED argVars
  /\ nDispatched' = nDispatched + 1
  /\ UNCHANGED openSockets

\* LoadCommand, ConfigCommand, FindCommand, GrepCommand, CompleteCommand:
\* run hands the bound arguments to the query logic, which writes a response.
RunQuery ==
  /\ mainPc = "dispatch" /\ BindError(conn) = "none" /\ conn.cmd \in QueryCommands
  /\ BindOptions(conn.cmd, conn.opts)
  /\ out' = <<"result">>
  /\ mainPc' = AfterDispatch
  /\ conn' = NoConn
  /\ UNCHANGED <<pidFile, sockFile, acceptorBroken, nConns, afterError, target>>
  /\ UNCHANGED <<engineVars, watchVars>>
  /\ nDispatched' = nDispatched + 1
  /\ openSockets' = SocketAfterIteration(openSockets)

\* The same, the query logic throwing: the exception leaves parseJson and
\* Serve::operator().
RunQueryThrows ==
  /\ mainPc = "dispatch" /\ BindError(conn) = "none" /\ conn.cmd \in QueryCommands
  /\ BindOptions(conn.cmd, conn.opts)
  /\ mainPc' = "unwind"
  /\ conn' = NoConn
  /\ UNCHANGED <<pidFile, sockFile, acceptorBroken, out, nConns, afterError, target>>
  /\ UNCHANGED <<engineVars, watchVars>>
  /\ nDispatched' = nDispatched + 1
  /\ UNCHANGED openSockets

\* IndexCommand::run, lines 100-101: update_.index(), then the notice.
RunIndex ==
  /\ mainPc = "dispatch" /\ BindError(conn) = "none" /\ conn.cmd = "index"
  /\ RequestRebuild(1)
  /\ out' = <<"Waiting for the index to be rebuilt...">>
  /\ mainPc' = "idxWait"
  /\ conn' = NoConn
  /\ UNCHANGED <<pidFile, sockFile, acceptorBroken, nConns, afterError, target>>
  /\ UNCHANGED watchVars
  /\ UNCHANGED argVars
  /\ nDispatched' = nDispatched + 1
  /\ UNCHANGED openSockets

\* IndexCommand::run, line 102: update_.wait() is entered.
WaitEnter ==
  /\ mainPc = "idxWait"
  /\ target' = WaitTarget(generation, requestedGeneration)
  /\ requestedGeneration' = ForcedRequest(generation, requestedGeneration)
  /\ phase' = IF requestedGeneration' = requestedGeneration
              THEN phase ELSE PhaseAfterRequest(phase)
  /\ rebuildFresh' = FALSE
  /\ freshDone' = FALSE
  /\ mainPc' = "idxBlocked"
  /\ UNCHANGED <<generation, engPc, engInterrupt, failed, nReqInRebuild>>
  /\ UNCHANGED <<pidFile, sockFile, acceptorBroken, conn, out, nConns, afterError>>
  /\ UNCHANGED watchVars
  /\ UNCHANGED argVars
  /\ UNCHANGED connVars

\* IndexCommand::run, lines 102-103: update_.wait() returns, "Done.".
WaitReturn ==
  /\ mainPc = "idxBlocked"
  /\ WaitSatisfied(generation, target)
  /\ out' = Append(out, "Done.")
  /\ mainPc' = AfterDispatch
  /\ target' = 0
  /\ UNCHANGED <<pidFile, sockFile, acceptorBroken, conn, nConns, afterError>>
  /\ UNCHANGED <<engineVars, watchVars>>
  /\ UNCHANGED argVars
  /\ openSockets' = SocketAfterIteration(openSockets)
  /\ UNCHANGED nDispatched

\* Faulty variant: main goes from the catch clause straight to the joins.
AfterServeLeftJoins == "join0"

\* main, lines 331-335: what follows the catch (...) that ends serve ().
AfterServeLeft == "interrupt0"

\* main, lines 328-331 with Serve::~Serve, lines 252-256: the exception
\* unwinds serve() (the connection's stream is destroyed), the destructor
\* unlinks both files, catch (...) ends it.
ServeUnwind ==
  /\ mainPc = "unwind"
  /\ sockFile' = FALSE
  /\ pidFile' = FALSE
  /\ mainPc' = AfterServeLeft
  /\ UNCHANGED <<acceptorBroken, conn, out, nConns, afterError, target>>
  /\ UNCHANGED <<engineVars, watchVars>>
  /\ UNCHANGED argVars
  /\ openSockets' = 0
  /\ UNCHANGED nDispatched

\* main, lines 334-335: interrupt the update thread, then the watcher.
InterruptUpdate ==
  /\ mainPc = "interrupt0"
  /\ engInterrupt' = TRUE
  /\ mainPc' = "interrupt1"
  /\ UNCHANGED <<generation, requestedGeneration, phase, engPc, failed,
                 rebuildFresh, freshDone, nReqInRebuild>>
  /\ UNCHANGED <<pidFile, sockFile, acceptorBroken, conn, out, nConns, afterError, target>>
  /\ UNCHANGED watchVars
  /\ UNCHANGED argVars
  /\ UNCHANGED connVars

InterruptWatch ==
  /\ mainPc = "interrupt1"
  /\ watchInterrupt' = TRUE
  /\ mainPc' = "join0"
  /\ UNCHANGED <<wPc, updateRequested_, wList, inotifyMap_, kernelWd, queue,
                 addCalls, nMods, nWatchIndex, win, rescanOwed>>
  /\ UNCHANGED <<pidFile, sockFile, acceptorBroken, conn, out, nConns, afterError, target>>
  /\ UNCHANGED engineVars
  /\ UNCHANGED argVars
  /\ UNCHANGED connVars

\* main, lines 336-337: join the update thread, then the watcher.
JoinUpdate ==
  /\ mainPc = "join0" /\ engPc = "exited"
  /\ mainPc' = "join1"
  /\ UNCHANGED <<pidFile, sockFile, acceptorBroken, conn, out, nConns, afterError, target>>
  /\ UNCHANGED <<engineVars, watchVars>>
  /\ UNCHANGED argVars
  /\ UNCHANGED connVars

JoinWatch ==
  /\ mainPc = "join1" /\ wPc = "exited"
  /\ mainPc' = "done"
  /\ UNCHANGED <<pidFile, sockFile, acceptorBroken, conn, out, nConns, afterError, target>>
  /\ UNCHANGED <<engineVars, watchVars>>
  /\ UNCHANGED argVars
  /\ UNCHANGED connVars

ServerNext ==
  \/ ServeCtor \/ ServeBind \/ ServeBindFails \/ AcceptOk \/ AcceptWithOptions
  \/ AcceptError
  \/ DispatchError \/ RunExit \/ RunQuery \/ RunQueryThrows \/ RunIndex
  \/ WaitEnter \/ WaitReturn \/ ServeUnwind
  \/ InterruptUpdate \/ InterruptWatch \/ JoinUpdate \/ JoinWatch

---------------------------------------------------------------------------
\* The state once main has built its objects and started both threads
\* (lines 300-322); Inotify starts with updateRequested_ set (line 12).
Init ==
  /\ generation = 0 /\ requestedGeneration = 0 /\ phase = "Idle"
  /\ engPc = "run" /\ engInterrupt = FALSE
  /\ rebuildFresh = FALSE /\ freshDone = FALSE /\ nReqInRebuild = 0
  /\ failed = FALSE
  /\ wPc = "top" /\ updateRequested_ = TRUE /\ wList = <<>>
  /\ inotifyMap_ = <<>> /\ kernelWd = <<>> /\ queue = <<>>
  /\ watchInterrupt = FALSE
  /\ addCalls = [f \in Files |-> 0]
  /\ nMods = 0 /\ nWatchIndex = 0 /\ win = WinClosed /\ rescanOwed = FALSE
  /\ mainPc = "start" /\ pidFile = FALSE /\ sockFile \in BOOLEAN
  /\ acceptorBroken = FALSE
  /\ conn = NoConn /\ out = <<>> /\ nConns = 0 /\ afterError = FALSE /\ target = 0
  /\ FindCommand_args_ = FindCommand_defaults
  /\ CompleteCommand_args_ = CompleteCommand_defaults
  /\ served = <<>> /\ dirtied = {}
  /\ openSockets = 0 /\ nDispatched = 0

Next == EngineNext \/ WatcherNext \/ ServerNext

Spec == Init /\ [][Next]_vars

\* The watcher and the engine while no client connects: the server thread
\* takes no step.
WatchNext ==
  \/ RequestRescan \/ WCheckFlag \/ WRegister \/ WClear
  \/ WPollError \/ WPollTimeout \/ WPollIn \/ WReadError \/ WRead
  \/ Modify \/ WindowOpen \/ WindowElapse
  \/ EngineBegin \/ EngineComplete \/ EngineIdle

SpecWatch == Init /\ [][WatchNext]_vars

\* The server, the engine and the watcher from start to shutdown, with the
\* one rescan the watcher starts with, no interval observed and no request
\* supplying a declared option.
ServeNext ==
  \/ ServeCtor \/ ServeBind \/ ServeBindFails \/ AcceptOk \/ AcceptError
  \/ DispatchError \/ RunExit \/ RunQuery \/ RunQueryThrows \/ RunIndex
  \/ WaitEnter \/ WaitReturn \/ ServeUnwind
  \/ InterruptUpdate \/ InterruptWatch \/ JoinUpdate \/ JoinWatch
  \/ EngineNext
  \/ WInterrupted \/ WCheckFlag \/ WRegister \/ WClear
  \/ WPollError \/ WPollTimeout \/ WPollIn \/ WReadError \/ WRead
  \/ Modify

SpecServe == Init /\ [][ServeNext]_vars

\* The same with the threads scheduled fairly: the engine's loop keeps
\* running and a waiter whose condition holds is woken.
FairServe ==
  /\ SpecServe
  /\ WF_vars(EngineBegin) /\ WF_vars(EngineComplete) /\ WF_vars(WaitReturn)

\* The server thread serving find and complete requests with options; the
\* engine and the watcher take no step.
DispatchNext ==
  \/ ServeCtor \/ ServeBind \/ ServeBindFails \/ AcceptWithOptions
  \/ DispatchError \/ RunQuery \/ RunQueryThrows \/ ServeUnwind

SpecDispatch == Init /\ [][DispatchNext]_vars

\* The same with the watcher thread scheduled fairly: every call of its
\* loop returns, poll after 1000 ms at the latest.
FairWatch ==
  /\ SpecServe
  /\ WF_vars(WInterrupted) /\ WF_vars(WRegister) /\ WF_vars(WClear)
  /\ WF_vars(WPollError \/ WPollTimeout \/ WPollIn)
  /\ WF_vars(WReadError \/ WRead)

\* The watcher and the engine while no client connects, the watcher thread
\* scheduled fairly.
FairRescan ==
  /\ SpecWatch
  /\ WF_vars(WCheckFlag) /\ WF_vars(WRegister) /\ WF_vars(WClear)
  /\ WF_vars(WPollError \/ WPollTimeout \/ WPollIn)
  /\ WF_vars(WReadError \/ WRead)

---------------------------------------------------------------------------
\* Claims

IndexAcknowledged ==
  out = <<"Waiting for the index to be rebuilt...", "Done.">>

\* C1: WaitForRebuild() never returns before a rebuild cycle that started at
\* or after its invocation has completed; a rebuild that finished or was
\* already running before the call does not release the waiter.
C1_WaitCoversFreshRebuild == IndexAcknowledged => freshDone

\* C2: single-flight: once a rebuild during which RequestRebuild() was called
\* (N >= 1 times) has finished, one further rebuild is due.
C2_OneFurtherRebuild ==
  (phase # "Rebuilding" /\ nReqInRebuild > 0)
    => Pending(generation, requestedGeneration)

\* C3: with the engine thread running, every WaitForRebuild() call
\* eventually returns.
C3_WaitReturns == (mainPc = "idxBlocked") ~> (mainPc # "idxBlocked")

\* C3 witness: the waiter is blocked on a rebuild its own wait forced (the
\* rebuild index() asked for had completed, nobody else asked).
C3_ForcedWait ==
  /\ mainPc = "idxBlocked" /\ nConns = 1 /\ nWatchIndex = 0
  /\ generation = 1 /\ phase = "Requested"

Range(seq) == {seq[i] : i \in 1..Len(seq)}

\* C4: the Watcher never registers two watch handles for one file name:
\* inotify_add_watch is called at most once per name, exactly for the names
\* the WatchTable holds, and the kernel holds no more watches than the table
\* has names.
C4_NoDoubleRegistration ==
  /\ \A f \in Files :
       /\ addCalls[f] <= 1
       /\ (addCalls[f] = 1) <=> contains(inotifyMap_, f)
  /\ Cardinality(DOMAIN kernelWd) <= Cardinality(DOMAIN inotifyMap_)

\* C4 witness: a rescan has walked a list naming b.c, which an earlier rescan
\* registered (b.c holds the first handle although a.c precedes it in this
\* list), and b.c was registered once.
C4_RelistedOnce ==
  /\ wPc = "clear" /\ wList = <<"a.c", "b.c">>
  /\ contains(inotifyMap_, "a.c") /\ contains(inotifyMap_, "b.c")
  /\ inotifyMap_["b.c"] = 1 /\ inotifyMap_["a.c"] = 2
  /\ addCalls["b.c"] = 1

\* C5: every wake-up with pending notification data issues exactly one
\* RequestRebuild().
C5_OneRequestPerWake ==
  [][(wPc = "readable" /\ wPc' # "readable")
       => nWatchIndex' = nWatchIndex + 1]_vars

\* C5 amended: a wake-up whose read succeeds issues exactly one
\* RequestRebuild(), whatever the number of records decoded, and leaves a
\* rebuild requested; a wake-up whose read fails issues none.
C5_OneRequestPerRead ==
  [][(wPc = "readable" /\ wPc' # "readable")
       => IF Len(queue') < Len(queue)
          THEN /\ nWatchIndex' = nWatchIndex + 1
               /\ requestedGeneration' > generation'
          ELSE /\ nWatchIndex' = nWatchIndex
               /\ UNCHANGED engineVars]_vars

\* C5 witness: within the observed interval both files were modified, every
\* event was read, and the watcher called index() once: one wake-up decoded
\* two records.
C5_TwoRecordsOneRequest ==
  /\ win.open /\ win.files = Files /\ win.mods = 2
  /\ queue = <<>> /\ win.calls = 1 /\ nWatchIndex = 1

\* The observed interval saw one file modified twice and every event read.
ModifiedTwiceInInterval ==
  /\ win.open /\ win.mods = 2 /\ Cardinality(win.files) = 1
  /\ queue = <<>>

\* C6: a watched file modified twice within one poll-wait interval makes the
\* Watcher call RequestRebuild() exactly once in that interval.
C6_OneRequestPerInterval == ModifiedTwiceInInterval => win.calls = 1

\* C6 amended: the Watcher calls RequestRebuild() once per read: once when
\* the second modification came before the read of the first event, twice
\* when it came after it.
C6_OneRequestPerBatch ==
  ModifiedTwiceInInterval
    => /\ win.calls = win.batches
       /\ win.calls \in {1, 2}

\* C6 witness: both modifications were read by one wake-up.
C6_BothInOneRead == ModifiedTwiceInInterval /\ win.batches = 1 /\ win.calls = 1

\* C7: a file whose registration failed stays unwatched and is tried again:
\* a rescan calls inotify_add_watch for every listed file the kernel does not
\* watch.
C7_FailedRegistrationRetried ==
  [][(wPc = "register" /\ wPc' = "clear")
       => \A f \in Range(wList) :
            f \notin DOMAIN kernelWd => addCalls'[f] > addCalls[f]]_vars

\* C8: a request naming an unknown command or option gets an error response
\* and leaves the server in its accept loop, both discovery files in place,
\* able to accept the next connection.
C8_ErrorKeepsServing ==
  /\ [](out = <<"error">> =>
          /\ mainPc = "accept" /\ pidFile /\ sockFile
          /\ (~acceptorBroken /\ nConns < MaxConns) => ENABLED AcceptOk)
  /\ [][(mainPc = "dispatch" /\ mainPc' # "dispatch" /\ BindError(conn) # "none")
          => (out' = <<"error">> /\ mainPc' = "accept")]_vars

\* C8 witness: the connection after one answered with an error was served.
C8_ServedAfterError == afterError /\ out = <<"result">> /\ mainPc = "accept"

\* C9: the exit command's exception leaves dispatch and Serve::operator();
\* once serve() is left, the pid file and the socket path are removed.
C9_ExitStopsServe ==
  /\ [](out = <<"Exiting...">> =>
          /\ mainPc \in {"unwind"} \cup AfterServe
          /\ mainPc \in AfterServe => (~pidFile /\ ~sockFile))
  /\ [][(mainPc = "dispatch" /\ mainPc' # "dispatch"
           /\ BindError(conn) = "none" /\ conn.cmd = "exit")
          => (out' = <<"Exiting...">> /\ mainPc' = "unwind")]_vars

\* C9 witness: exit was served and main went on to shut the threads down.
C9_ExitServed ==
  /\ out = <<"Exiting...">> /\ mainPc = "done"
  /\ ~pidFile /\ ~sockFile

\* C10: after an unrecoverable accept error Serve::operator() is left.
C10_AcceptErrorEndsServe ==
  acceptorBroken => mainPc \in {"unwind"} \cup AfterServe

\* C11: shutdown protocol: whatever made the server loop exit, main goes on
\* to request the cancellation of the engine thread and of the watcher
\* thread; both requests are made before the first join, the engine thread
\* has ended when its join returns, and main ends only after both threads
\* have ended.
C11_ShutdownProtocol ==
  /\ [](mainPc \in {"join0", "join1", "done"} => (engInterrupt /\ watchInterrupt))
  /\ [](mainPc \in {"join1", "done"} => engPc = "exited")
  /\ [](mainPc = "done" => wPc = "exited")
  /\ [][(mainPc = "unwind" /\ mainPc' # "unwind") => mainPc' = "interrupt0"]_vars
  /\ [][(mainPc \in {"interrupt0", "interrupt1"} /\ mainPc' \in {"join0", "join1", "done"})
          => (engInterrupt' /\ watchInterrupt')]_vars

\* C11 witness: the query logic threw while the first connection was served
\* (no response written), and main has joined both threads.
C11_JoinedAfterFailure ==
  /\ mainPc = "done" /\ nConns = 1 /\ out = <<>>
  /\ engPc = "exited" /\ wPc = "exited"

\* C12: default isolation: when the execution hook of a bound find request
\* is invoked, every option the request supplied holds the supplied value and
\* every other declared option holds its declared default, whatever earlier
\* dispatches left in the cells.
C12_DefaultIsolation ==
  [][(mainPc = "dispatch" /\ mainPc' # "dispatch"
        /\ conn.cmd = "find" /\ BindError(conn) = "none")
       => \A o \in DOMAIN FindKeys :
            FindCommand_args_'[FindKeys[o]] =
              IF o \in DOMAIN conn.opts THEN conn.opts[o]
              ELSE FindCommand_defaults[FindKeys[o]]]_vars

\* C12 witness: find, complete {file}, find {offset}: the first find had set
\* file and the three flags off their defaults; after the second find they
\* hold their defaults again and offset holds the supplied value.
C12_SecondFindClean ==
  /\ served = <<"find", "complete", "find">> /\ mainPc = "accept"
  /\ out = <<"result">>
  /\ dirtied = {"fileName", "offset", "mostSpecific", "diagnostics", "fromIndex"}
  /\ CompleteCommand_args_.fileName = "b.cpp"
  /\ FindCommand_args_ = [FindCommand_defaults EXCEPT !.offset = 120]

\* C13: no part of the index command's response is written before the
\* rebuild it requested has completed: while run still has to call or is
\* blocked in update_.wait (), nothing has been written to the connection.
C13_NothingBeforeCompletion ==
  mainPc \in {"idxWait", "idxBlocked"} => out = <<>>

\* C14: generation only increases, by one and only in the step that
\* completes a rebuild cycle (a step of the engine that RequestRebuild,
\* WaitForRebuild and the idle iteration are not), and requestedGeneration
\* never exceeds generation + 1.
C14_GenerationCounts ==
  /\ [](requestedGeneration <= generation + 1)
  /\ [][generation' # generation
          => /\ generation' = generation + 1
             /\ phase = "Rebuilding" /\ phase' = "Idle"
             /\ mainPc' = mainPc /\ wPc' = wPc
             /\ requestedGeneration' = requestedGeneration]_vars
  /\ [][(mainPc' # mainPc \/ wPc' # wPc \/ phase' = phase)
          => generation' = generation]_vars

\* C14 witness: one rebuild cycle has completed and the second one, asked
\* for twice while it runs, is under way.
C14_SecondCycle ==
  /\ generation = 1 /\ requestedGeneration = 2 /\ phase = "Rebuilding"
  /\ nReqInRebuild = 2

\* C15: a rebuild in which the indexer fails does not wedge the engine: its
\* completion increments generation and leaves nothing pending, a
\* WaitForRebuild() blocked while the last rebuild failed returns, and a
\* rebuild requested after a failed one is started (unless the engine thread
\* is being cancelled).
C15_FailedRebuildCompletes ==
  /\ [][(phase = "Rebuilding" /\ phase' # "Rebuilding" /\ failed')
          => /\ generation' = generation + 1
             /\ phase' = "Idle"
             /\ ~Pending(generation', requestedGeneration')]_vars
  /\ (failed /\ mainPc = "idxBlocked") ~> (mainPc # "idxBlocked")
  /\ (failed /\ phase = "Requested") ~> (phase = "Rebuilding" \/ engInterrupt)

\* C15 witness: the only rebuild completed so far failed, the index command
\* waiting for it has returned, and a rebuild requested since is running.
C15_RebuildAfterFailure ==
  /\ failed /\ generation = 1 /\ nConns = 1 /\ IndexAcknowledged
  /\ phase = "Rebuilding" /\ rebuildFresh = FALSE

\* How far an iteration of the watcher's loop has got.
WatcherRank ==
  [register |-> 1, clear |-> 2, poll |-> 3, readable |-> 4, top |-> 5, exited |-> 6]

\* C16: once the cancellation of the watcher thread is requested, the thread
\* ends within the iteration under way: the iteration only advances (one
\* poll wait at most, which returns), the check that opens the next
\* iteration ends the thread, and the thread does end, with or without file
\* events and rescan requests.
C16_WatcherExits ==
  /\ [][(watchInterrupt /\ wPc' # wPc) => WatcherRank[wPc'] > WatcherRank[wPc]]_vars
  /\ [][(watchInterrupt /\ wPc = "top" /\ wPc' # wPc) => wPc' = "exited"]_vars
  /\ [](watchInterrupt /\ wPc = "poll" => ENABLED (WPollError \/ WPollTimeout \/ WPollIn))
  /\ watchInterrupt ~> (wPc = "exited")

\* C16 witness: the watcher has ended, no file was ever modified and no
\* rescan is requested; main has not joined any thread yet.
C16_ExitedWhenQuiet ==
  /\ wPc = "exited" /\ watchInterrupt /\ nMods = 0 /\ queue = <<>>
  /\ ~updateRequested_ /\ mainPc = "join0"

\* C17: the server loop is sequential: at most one connection is open at any
\* time, none is open when accept is called, every connection accepted has
\* had exactly one dispatch by then, and no connection ever has a second one.
C17_OneConnectionOneDispatch ==
  /\ openSockets \in {0, 1}
  /\ nDispatched \in {nConns - 1, nConns} /\ nDispatched >= 0
  /\ mainPc = "accept" => (openSockets = 0 /\ nDispatched = nConns)
  /\ mainPc = "dispatch" => (openSockets = 1 /\ nDispatched = nConns - 1)

\* C17 witness: the second connection has been served and closed, the loop
\* is about to accept again.
C17_TwoServedInTurn ==
  /\ mainPc = "accept" /\ nConns = 2 /\ nDispatched = 2 /\ openSockets = 0
  /\ out = <<"result">> /\ ~afterError

\* C18: RequestRescan() can always be called and only marks the rescan flag:
\* the step that sets the flag leaves the WatchTable, the kernel's watches,
\* the fetched list and the watcher's position alone; the list is fetched
\* from Storage and the WatchTable written only by the watcher's own loop,
\* in its rescan.
C18_RescanOnlyMarks ==
  /\ [](engPc = "run" => ENABLED RequestRescan)
  /\ [][(~updateRequested_ /\ updateRequested_')
          => UNCHANGED <<inotifyMap_, kernelWd, addCalls, wList, wPc, queue>>]_vars
  /\ [][(inotifyMap_' # inotifyMap_ \/ kernelWd' # kernelWd \/ addCalls' # addCalls)
          => (wPc = "register" /\ wPc' = "clear")]_vars
  /\ [][(wList' # wList /\ wList' # <<>>) => (wPc = "top" /\ wPc' = "register")]_vars

\* C18 witness: a rescan was requested while the watcher, its first rescan
\* done, waits in poll: the flag is set again and the table holds what the
\* first rescan registered.
C18_MarkedWhilePolling ==
  /\ updateRequested_ /\ wPc = "poll"
  /\ DOMAIN inotifyMap_ = {"a.c"} /\ addCalls = [f \in Files |-> IF f = "a.c" THEN 1 ELSE 0]
  /\ DOMAIN kernelWd = {"a.c"}

\* C19: no rescan request is lost: every RequestRescan() call is eventually
\* followed by a rescan whose fetch of the file list starts after the call.
C19_NoRescanLost == rescanOwed ~> ~rescanOwed

\* C20: the WatchTable is injective and holds valid handles only: no two
\* file names are bound to one handle, and every handle in the table is the
\* one the kernel gave the file's watch.
C20_TableInjective ==
  /\ \A f, g \in DOMAIN inotifyMap_ : f # g => inotifyMap_[f] # inotifyMap_[g]
  /\ \A f \in DOMAIN inotifyMap_ :
       f \in DOMAIN kernelWd /\ inotifyMap_[f] = kernelWd[f]

====
